---- MODULE Spec2Model ----
\* Electric Kiwi integration (custom_components/electric_kiwi): the Account
\* and the HOP DataUpdateCoordinator of coordinator.py, the remote API they
\* call, the write-through selection update async_update_hop, the select
\* entity of select.py, the HOP sensors of sensor.py and the setup of
\* __init__.py.
EXTENDS Integers, Sequences, FiniteSets, TLC

\* ---------------------------------------------------------------- bounds
\* number of interval keys the remote offers
NumIntervals == 2
\* number of distinct account balances the remote can report
NumBalances == 2
\* remote calls made in one lifetime of the two coordinators, all operations together
MaxCalls == 5

\* ---------------------------------------------------------------- values
\* Python None, and a present value
None == <<>>
Some(v) == <<v>>

Coords == {"account", "hop"}
Procs == {"account", "hop", "update"}
ApiOps == {"get_account_balance", "get_hop_intervals", "get_hop", "post_hop"}
Keys == 1 .. NumIntervals

\* the text "h:MM AM/PM" of a time of day, kept as its three fields
StartTime(k) == <<k, 0, "PM">>
EndTime(k) == <<k + 1, 0, "PM">>

\* electrickiwi_api.model: one entry of HopIntervals.intervals
Interval(k, a) == [start_time |-> StartTime(k), end_time |-> EndTime(k), active |-> a]

\* electrickiwi_api.model.Hop for interval key k
Hop(k) == [start |-> [start_time |-> StartTime(k)], end |-> [end_time |-> EndTime(k)]]

\* electrickiwi_api.model.AccountBalance
AccountBalance(n) == [total_running_balance |-> n]

\* every catalog payload get_hop_intervals can return
HopIntervalsPayloads ==
    { [intervals |-> [k \in Keys |-> Interval(k, act[k])]] : act \in [Keys -> {0, 1}] }

\* what an awaited remote call gives the coroutine: a value, or an exception
Answer(kind, value) == [kind |-> kind, value |-> value]

ApiErrors == {"AuthException", "ApiException"}

\* the exceptions a remote call can raise
ErrorAnswers == {Answer(e, None) : e \in ApiErrors}

\* what get_account_balance can give
AccountAnswers ==
    {Answer("ok", Some(AccountBalance(n))) : n \in 1 .. NumBalances} \cup ErrorAnswers

\* what get_hop_intervals can give
HopIntervalsAnswers ==
    {Answer("ok", Some(p)) : p \in HopIntervalsPayloads} \cup ErrorAnswers

\* the two HOP sensors: start and end of the hour of free power
HopSensors == {"ATTR_EK_HOP_START", "ATTR_EK_HOP_END"}

VARIABLES
    pc,             \* position of each coroutine: "idle" or the remote call it awaits
    inflight,       \* the Hop the remote has answered to get_hop / post_hop, on its way
    data,           \* DataUpdateCoordinator.data of each coordinator
    hop_intervals,  \* ElectricKiwiHOPDataCoordinator.hop_intervals
    lastResult,     \* how the last refresh of each coordinator ended
    lastMessage,    \* the message of the exception that ended it, up to the error text
    scheduled,      \* the refresh timer of each coordinator is armed
    reauth,         \* a re-authentication flow was started for the coordinator
    listeners,      \* the platforms are set up: the entities subscribe to both coordinators
    notified,       \* the coordinator whose subscribers the last step called, or "none"
    calls,          \* remote calls made so far, all operations together
    remoteHop,      \* the selection the remote stores
    lastAnswer,     \* how the last awaited remote call of each coroutine ended
    balanceReturned,\* what the last get_account_balance gave, None when it raised
    catalogPayload, \* the payload of the get_hop_intervals call that filled the catalog
    updKey,         \* argument of the last async_update_hop
    updResult,      \* how the last async_update_hop ended
    updReturn,      \* what the last async_update_hop returned
    now,            \* the wall clock, in minutes
    sensorValue,    \* what each HOP sensor last gave as its native_value
    values_dict,    \* ElectricKiwiSelectHOPEntity.values_dict, None before the entity exists
    current_option, \* ElectricKiwiSelectHOPEntity._attr_current_option
    attr_native_value,  \* ElectricKiwiHOPEntity._attr_native_value of each HOP sensor
    updOption       \* argument of the last async_select_option

coordinatorVars ==
    <<pc, inflight, data, hop_intervals, lastResult, lastMessage, scheduled, reauth,
      listeners, notified, calls, remoteHop, lastAnswer, balanceReturned, catalogPayload,
      updKey, updResult, updReturn>>

sensorVars == <<now, sensorValue>>

\* what the subscribers of the HOP coordinator write when they are called
attrVars == <<current_option, attr_native_value>>

entityVars == <<values_dict, updOption, attrVars>>

vars == <<coordinatorVars, sensorVars, entityVars>>

coordVars == <<data, lastResult, lastMessage, scheduled, reauth>>
updVars == <<updKey, updResult, updReturn>>
remoteVars == <<remoteHop, balanceReturned, catalogPayload>>

\* ---------------------------------------------------------------- construction
Init ==
    /\ pc = [p \in Procs |-> "idle"]
    /\ inflight = [p \in {"hop", "update"} |-> None]
    /\ data = [c \in Coords |-> None]
    /\ hop_intervals = None
    /\ lastResult = [c \in Coords |-> "none"]
    /\ lastMessage = [c \in Coords |-> ""]
    /\ scheduled = [c \in Coords |-> FALSE]
    /\ reauth = [c \in Coords |-> FALSE]
    /\ listeners = FALSE
    /\ notified = "none"
    /\ calls = 0
    /\ remoteHop \in Keys
    /\ lastAnswer = [p \in Procs |-> "none"]
    /\ balanceReturned = None
    /\ catalogPayload = None
    /\ updKey = 0
    /\ updResult = "none"
    /\ updReturn = None
    /\ now = 0
    /\ sensorValue = [s \in HopSensors |-> None]
    /\ values_dict = None
    /\ current_option = None
    /\ attr_native_value = [s \in HopSensors |-> None]
    /\ updOption = None

\* ---------------------------------------------------------------- helpers
Max(S) == CHOOSE x \in S : \A y \in S : y <= x

\* remote calls made so far or still to be made by the refresh that is running
CommittedCalls == calls + (IF pc["hop"] = "get_hop_intervals" THEN 1 ELSE 0)

\* the outcome of a refresh that ran into the 60 second timeout
TimeoutOutcome == [result |-> "TimeoutError", value |-> None, message |-> ""]

\* results of a refresh that did not succeed
FailedResults == {"ConfigEntryAuthFailed", "UpdateFailed", "TimeoutError"}

\* results of a refresh that failed for another reason than authentication
GenericFailures == {"UpdateFailed", "TimeoutError"}

\* what the await of coroutine p on get_hop / post_hop can give now: the Hop
\* the remote has answered, or an exception when the remote rejects the call
HopAnswers(p) ==
    IF inflight[p] = None THEN ErrorAnswers ELSE {Answer("ok", inflight[p])}

\* ---------------------------------------------------------------- remote API
\* the remote serves get_hop: it answers the selection it stores
ApiGetHop ==
    /\ pc["hop"] = "get_hop"
    /\ inflight["hop"] = None
    /\ inflight' = [inflight EXCEPT !["hop"] = Some(Hop(remoteHop))]
    /\ notified' = "none"
    /\ UNCHANGED <<sensorVars, entityVars, pc, hop_intervals, listeners, calls, lastAnswer,
                   coordVars, updVars, remoteVars>>

\* the remote serves post_hop: it stores the selection it decides on and
\* answers it
ApiPostHop ==
    /\ pc["update"] = "post_hop"
    /\ inflight["update"] = None
    /\ \E v \in Keys :
            /\ remoteHop' = v
            /\ inflight' = [inflight EXCEPT !["update"] = Some(Hop(v))]
    /\ notified' = "none"
    /\ UNCHANGED <<sensorVars, entityVars, pc, hop_intervals, listeners, calls, lastAnswer,
                   coordVars, updVars, balanceReturned, catalogPayload>>

\* ---------------------------------------------------------------- entity callbacks
\* the label "start_time - end_time" of an interval
Label(start_time, end_time) == <<start_time, " - ", end_time>>

\* _get_current_option with a format of its own, without the blanks of the
\* labels of get_hop_options
get_current_optionOtherFormat(hop) == <<hop.start.start_time, "-", hop.end.end_time>>

\* ElectricKiwiSelectHOPEntity._get_current_option: the label of the Hop it reads
get_current_option(hop) == Label(hop.start.start_time, hop.end.end_time)

\* minutes of one calendar day: timedelta(days=1)
OneDay == 24 * 60

\* datetime.strptime(text, "%I:%M %p").time(), as minutes after midnight:
\* the hour of the 12-hour clock counts modulo 12, PM adds twelve hours
ParseTime(text) == ((text[1] % 12) + (IF text[3] = "PM" THEN 12 ELSE 0)) * 60 + text[2]

\* datetime.today(): the calendar day of the wall clock
Today == now \div OneDay

\* datetime.combine(day, time): the instant of a time of day on a calendar day
Combine(day, time) == day * OneDay + time

\* value_func of the two HOP_SENSOR_TYPE descriptions: the start (end) time
\* of the hop on today's date
value_func(sensor, hop) ==
    IF sensor = "ATTR_EK_HOP_START"
        THEN Combine(Today, ParseTime(hop.start.start_time))
        ELSE Combine(Today, ParseTime(hop.end.end_time))

\* ElectricKiwiHOPEntity._handle_coordinator_update of the two HOP sensors:
\* value_func of the Hop they read
SensorAttrs(hop) == [s \in HopSensors |-> Some(value_func(s, hop[1]))]

\* _handle_coordinator_update of the select entity and of the two HOP sensors,
\* reading `hop` as the data of the coordinator; on None they raise before
\* they assign anything
HandleCoordinatorUpdate(hop) ==
    IF hop = None
        THEN UNCHANGED attrVars
        ELSE /\ current_option' = Some(get_current_option(hop[1]))
             /\ attr_native_value' = SensorAttrs(hop)

\* ---------------------------------------------------------------- DataUpdateCoordinator
\* async_update_listeners: every subscriber is called
UpdateListeners(c) ==
    notified' = IF listeners THEN c ELSE "none"

\* the subscribers of coordinator c are called and find `read` as its data
ListenersCalled(c, read) ==
    /\ UpdateListeners(c)
    /\ IF listeners /\ c = "hop" THEN HandleCoordinatorUpdate(read)
                                 ELSE UNCHANGED attrVars

\* a refresh starts on the timer only when the timer is armed; it disarms it
RefreshStarts(c, trig) ==
    /\ trig = "timer" => scheduled[c]
    /\ scheduled' = [scheduled EXCEPT ![c] = FALSE]
    /\ notified' = "none"

\* the tail of a refresh: _async_update_data returned or raised `outcome`
RefreshFinished(c, outcome) ==
    /\ data' = [data EXCEPT ![c] = IF outcome.result = "ok" THEN outcome.value ELSE @]
    /\ lastResult' = [lastResult EXCEPT ![c] = outcome.result]
    /\ lastMessage' = [lastMessage EXCEPT ![c] = outcome.message]
    /\ reauth' = [reauth EXCEPT ![c] = @ \/ outcome.result = "ConfigEntryAuthFailed"]
    /\ scheduled' = [scheduled EXCEPT
                        ![c] = outcome.result # "ConfigEntryAuthFailed" /\ listeners]
    /\ IF outcome.result \in FailedResults /\ lastResult[c] \in FailedResults
          THEN notified' = "none" /\ UNCHANGED attrVars
          ELSE ListenersCalled(c, data'[c])

\* ---------------------------------------------------------------- Account coordinator
\* _async_update_data of the Account coordinator without its `return`: the
\* awaited balance is dropped
AccountUpdateDataNoReturn(resp) ==
    IF resp.kind = "AuthException"
        THEN [result |-> "ConfigEntryAuthFailed", value |-> None, message |-> ""]
    ELSE IF resp.kind = "ApiException"
        THEN [result |-> "UpdateFailed", value |-> None,
              message |-> "Error communicating with EK API: "]
    ELSE [result |-> "ok", value |-> None, message |-> ""]

\* _async_update_data of the Account coordinator with one handler for both
\* exceptions: ApiException raises ConfigEntryAuthFailed too
AccountUpdateDataAllErrorsAuth(resp) ==
    IF resp.kind \in ApiErrors
        THEN [result |-> "ConfigEntryAuthFailed", value |-> None, message |-> ""]
    ELSE [result |-> "ok", value |-> resp.value, message |-> ""]

\* ElectricKiwiAccountDataCoordinator._async_update_data, from the answer of
\* get_account_balance to what it returns or raises
AccountUpdateData(resp) ==
    IF resp.kind = "AuthException"
        THEN [result |-> "ConfigEntryAuthFailed", value |-> None, message |-> ""]
    ELSE IF resp.kind = "ApiException"
        THEN [result |-> "UpdateFailed", value |-> None,
              message |-> "Error communicating with EK API: "]
    ELSE [result |-> "ok", value |-> resp.value, message |-> ""]

AccountRefreshStart(trig) ==
    /\ pc["account"] = "idle"
    /\ CommittedCalls < MaxCalls
    /\ RefreshStarts("account", trig)
    /\ pc' = [pc EXCEPT !["account"] = "get_account_balance"]
    /\ calls' = calls + 1
    /\ UNCHANGED <<sensorVars, entityVars, inflight, data, hop_intervals, lastResult,
                   lastMessage, reauth, listeners, lastAnswer, updVars, remoteVars>>

\* get_account_balance gave `resp`: the refresh ends with what
\* _async_update_data makes of it
AccountRefreshReturn(resp) ==
    /\ pc["account"] = "get_account_balance"
    /\ lastAnswer' = [lastAnswer EXCEPT !["account"] = resp.kind]
    /\ balanceReturned' = resp.value
    /\ RefreshFinished("account", AccountUpdateData(resp))
    /\ pc' = [pc EXCEPT !["account"] = "idle"]
    /\ UNCHANGED <<sensorVars, values_dict, updOption, inflight, hop_intervals, listeners,
                   calls, remoteHop, catalogPayload, updVars>>

\* the 60 seconds pass before get_account_balance gives anything
AccountRefreshTimeout ==
    /\ pc["account"] = "get_account_balance"
    /\ lastAnswer' = [lastAnswer EXCEPT !["account"] = "timeout"]
    /\ balanceReturned' = None
    /\ RefreshFinished("account", TimeoutOutcome)
    /\ pc' = [pc EXCEPT !["account"] = "idle"]
    /\ UNCHANGED <<sensorVars, values_dict, updOption, inflight, hop_intervals, listeners,
                   calls, remoteHop, catalogPayload, updVars>>

\* ---------------------------------------------------------------- HOP coordinator
\* _async_update_data of the HOP coordinator without the filter
FilterActiveKeepsAll(p) == [intervals |-> p.intervals]

\* the filter of _async_update_data: only the intervals with active == 1 stay
FilterActive(p) ==
    [intervals |-> [k \in {j \in DOMAIN p.intervals : p.intervals[j].active = 1}
                        |-> p.intervals[k]]]

\* get_hop_options: label -> key; for equal labels the later entry stays
get_hop_options ==
    LET iv == hop_intervals[1].intervals
        labels == {Label(iv[k].start_time, iv[k].end_time) : k \in DOMAIN iv}
    IN  [l \in labels |->
            Max({k \in DOMAIN iv : Label(iv[k].start_time, iv[k].end_time) = l})]

\* get_selected_hop
get_selected_hop == data["hop"]

\* _async_update_data of the HOP coordinator swallowing ApiException: it logs
\* the error and returns None
HopUpdateDataSwallowsError(resp) ==
    IF resp.kind = "AuthException"
        THEN [result |-> "ConfigEntryAuthFailed", value |-> None, message |-> ""]
    ELSE IF resp.kind = "ApiException"
        THEN [result |-> "ok", value |-> None, message |-> ""]
    ELSE [result |-> "ok", value |-> resp.value, message |-> ""]

\* _async_update_data of the HOP coordinator with the ApiException handler
\* catching AuthException too
HopUpdateDataAuthAsUpdateFailed(resp) ==
    IF resp.kind \in ApiErrors
        THEN [result |-> "UpdateFailed", value |-> None,
              message |-> "Error communicating with EK API: "]
    ELSE [result |-> "ok", value |-> resp.value, message |-> ""]

\* ElectricKiwiHOPDataCoordinator._async_update_data, from the answer of the
\* remote call that ends it to what it returns or raises
HopUpdateData(resp) ==
    IF resp.kind = "AuthException"
        THEN [result |-> "ConfigEntryAuthFailed", value |-> None, message |-> ""]
    ELSE IF resp.kind = "ApiException"
        THEN [result |-> "UpdateFailed", value |-> None,
              message |-> "Error communicating with EK API: "]
    ELSE [result |-> "ok", value |-> resp.value, message |-> ""]

\* a HOP refresh without the `hop_intervals is None` test
HopFirstCallAlwaysCatalog == "get_hop_intervals"

\* the first remote call of a HOP refresh
HopFirstCall == IF hop_intervals = None THEN "get_hop_intervals" ELSE "get_hop"

\* a catalog fetch that caches an empty catalog when get_hop_intervals raised
CatalogAfterCachesEmpty(resp) ==
    IF resp.kind = "ok" THEN Some(FilterActive(resp.value[1]))
                        ELSE Some([intervals |-> <<>>])

\* what get_hop_intervals leaves in hop_intervals: the filtered payload, or,
\* when it raised, what was there
CatalogAfter(resp) ==
    IF resp.kind = "ok" THEN Some(FilterActive(resp.value[1])) ELSE hop_intervals

\* a HOP refresh that fetches the catalog again after a failed refresh
HopRefreshStartRefetchesAfterFailure(trig) ==
    LET first == IF hop_intervals = None \/ lastResult["hop"] \in FailedResults
                    THEN "get_hop_intervals" ELSE "get_hop"
    IN  /\ pc["hop"] = "idle"
        /\ CommittedCalls + (IF first = "get_hop_intervals" THEN 2 ELSE 1) <= MaxCalls
        /\ RefreshStarts("hop", trig)
        /\ pc' = [pc EXCEPT !["hop"] = first]
        /\ calls' = calls + 1
        /\ UNCHANGED <<sensorVars, entityVars, inflight, data, hop_intervals, lastResult,
                       lastMessage, reauth, listeners, lastAnswer, updVars, remoteVars>>

HopRefreshStart(trig) ==
    /\ pc["hop"] = "idle"
    /\ CommittedCalls + (IF HopFirstCall = "get_hop_intervals" THEN 2 ELSE 1) <= MaxCalls
    /\ RefreshStarts("hop", trig)
    /\ pc' = [pc EXCEPT !["hop"] = HopFirstCall]
    /\ calls' = calls + 1
    /\ UNCHANGED <<sensorVars, entityVars, inflight, data, hop_intervals, lastResult,
                   lastMessage, reauth, listeners, lastAnswer, updVars, remoteVars>>

\* get_hop_intervals gave `resp`: a payload is filtered and kept, and get_hop
\* is called; an exception ends the refresh
HopIntervalsReturn(resp) ==
    /\ pc["hop"] = "get_hop_intervals"
    /\ lastAnswer' = [lastAnswer EXCEPT !["hop"] = resp.kind]
    /\ hop_intervals' = CatalogAfter(resp)
    /\ IF resp.kind = "ok"
          THEN /\ catalogPayload' = resp.value
               /\ pc' = [pc EXCEPT !["hop"] = "get_hop"]
               /\ calls' = calls + 1
               /\ notified' = "none"
               /\ UNCHANGED <<coordVars, attrVars>>
          ELSE /\ RefreshFinished("hop", HopUpdateData(resp))
               /\ pc' = [pc EXCEPT !["hop"] = "idle"]
               /\ UNCHANGED <<catalogPayload, calls>>
    /\ UNCHANGED <<sensorVars, values_dict, updOption, inflight, listeners, remoteHop,
                   balanceReturned, updVars>>

\* a HOP refresh that keeps the catalog only when get_hop succeeded too: an
\* exception of get_hop puts hop_intervals back to None
HopGetHopReturnDropsCatalog(resp) ==
    /\ pc["hop"] = "get_hop"
    /\ lastAnswer' = [lastAnswer EXCEPT !["hop"] = resp.kind]
    /\ RefreshFinished("hop", HopUpdateData(resp))
    /\ pc' = [pc EXCEPT !["hop"] = "idle"]
    /\ inflight' = [inflight EXCEPT !["hop"] = None]
    /\ hop_intervals' = IF resp.kind = "ok" THEN hop_intervals ELSE None
    /\ UNCHANGED <<sensorVars, values_dict, updOption, listeners, calls, updVars,
                   remoteVars>>

\* get_hop gave `resp`: the refresh ends with what _async_update_data makes of it
HopGetHopReturn(resp) ==
    /\ pc["hop"] = "get_hop"
    /\ lastAnswer' = [lastAnswer EXCEPT !["hop"] = resp.kind]
    /\ RefreshFinished("hop", HopUpdateData(resp))
    /\ pc' = [pc EXCEPT !["hop"] = "idle"]
    /\ inflight' = [inflight EXCEPT !["hop"] = None]
    /\ UNCHANGED <<sensorVars, values_dict, updOption, hop_intervals, listeners, calls,
                   updVars, remoteVars>>

\* the 60 seconds pass before the remote call the refresh awaits gives anything
HopRefreshTimeout ==
    /\ pc["hop"] \in {"get_hop_intervals", "get_hop"}
    /\ lastAnswer' = [lastAnswer EXCEPT !["hop"] = "timeout"]
    /\ RefreshFinished("hop", TimeoutOutcome)
    /\ pc' = [pc EXCEPT !["hop"] = "idle"]
    /\ inflight' = [inflight EXCEPT !["hop"] = None]
    /\ UNCHANGED <<sensorVars, values_dict, updOption, hop_intervals, listeners, calls,
                   updVars, remoteVars>>

\* async_update_hop up to its await of post_hop
AsyncUpdateHopStart(hop_interval) ==
    /\ pc["update"] = "idle"
    /\ CommittedCalls < MaxCalls
    /\ pc' = [pc EXCEPT !["update"] = "post_hop"]
    /\ calls' = calls + 1
    /\ updKey' = hop_interval
    /\ updResult' = "running"
    /\ updReturn' = None
    /\ notified' = "none"
    /\ UNCHANGED <<sensorVars, values_dict, attrVars, inflight, hop_intervals, listeners,
                   lastAnswer, coordVars, remoteVars>>

\* async_update_hop storing the interval it asked for instead of the answer
UpdatedHopFromKey(hop_interval, resp) == Some(Hop(hop_interval))

\* async_update_hop updating the cached Hop in place, its start only
UpdatedHopStartInPlace(hop_interval, resp) ==
    IF data["hop"] = None THEN resp.value
    ELSE Some([data["hop"][1] EXCEPT !.start = resp.value[1].start])

\* what async_update_hop stores in data from the answer of post_hop
UpdatedHop(hop_interval, resp) == resp.value

\* async_update_hop calling the subscribers in a `finally`: also when post_hop raised
AsyncUpdateHopReturnAlwaysNotifies(resp) ==
    /\ pc["update"] = "post_hop"
    /\ lastAnswer' = [lastAnswer EXCEPT !["update"] = resp.kind]
    /\ IF resp.kind = "ok"
          THEN /\ data' = [data EXCEPT !["hop"] = resp.value]
               /\ updReturn' = data'["hop"]
               /\ updResult' = "ok"
          ELSE /\ updResult' = resp.kind
               /\ UNCHANGED <<data, updReturn>>
    /\ UpdateListeners("hop")
    /\ attr_native_value' = IF listeners THEN SensorAttrs(data'["hop"])
                                         ELSE attr_native_value
    /\ current_option' = IF resp.kind = "ok" THEN updOption ELSE current_option
    /\ pc' = [pc EXCEPT !["update"] = "idle"]
    /\ inflight' = [inflight EXCEPT !["update"] = None]
    /\ UNCHANGED <<sensorVars, values_dict, updOption, hop_intervals, lastResult,
                   lastMessage, scheduled, reauth, listeners, calls, updKey, remoteVars>>

\* async_update_hop calling async_update_listeners before it assigns data
ListenersReadBeforeAssignment(before, after) == before

\* the data the subscribers find when async_update_hop calls them: the
\* assignment to data comes first
ListenersRead(before, after) == after

\* async_update_hop after its await, and async_select_option after its own:
\* post_hop gave `resp`; a Hop becomes the data, the subscribers are called,
\* the data is returned and the select entity takes the option it was asked
\* for as its current option; an exception leaves both methods at the await
AsyncUpdateHopReturn(resp) ==
    /\ pc["update"] = "post_hop"
    /\ lastAnswer' = [lastAnswer EXCEPT !["update"] = resp.kind]
    /\ IF resp.kind = "ok"
          THEN /\ data' = [data EXCEPT !["hop"] = UpdatedHop(updKey, resp)]
               /\ UpdateListeners("hop")
               /\ attr_native_value' =
                        IF listeners
                            THEN SensorAttrs(ListenersRead(data["hop"], data'["hop"]))
                            ELSE attr_native_value
               /\ updReturn' = data'["hop"]
               /\ updResult' = "ok"
               /\ current_option' = updOption
          ELSE /\ updResult' = resp.kind
               /\ notified' = "none"
               /\ UNCHANGED <<data, updReturn, attrVars>>
    /\ pc' = [pc EXCEPT !["update"] = "idle"]
    /\ inflight' = [inflight EXCEPT !["update"] = None]
    /\ UNCHANGED <<sensorVars, values_dict, updOption, hop_intervals, lastResult,
                   lastMessage, scheduled, reauth, listeners, calls, updKey, remoteVars>>

\* ---------------------------------------------------------------- select entity
\* the platforms are set up: the entities are constructed and subscribe, and
\* the first subscriber of a coordinator arms its timer.
\* ElectricKiwiSelectHOPEntity.__init__ reads get_hop_options and the
\* selected Hop; on a None catalog or a None selection it raises and leaves
\* no select entity
CreateEntities ==
    /\ ~listeners
    /\ listeners' = TRUE
    /\ scheduled' = [c \in Coords |-> TRUE]
    /\ notified' = "none"
    /\ IF hop_intervals = None \/ get_selected_hop = None
          THEN UNCHANGED <<values_dict, current_option>>
          ELSE /\ values_dict' = Some(get_hop_options)
               /\ current_option' = Some(get_current_option(get_selected_hop[1]))
    /\ UNCHANGED <<sensorVars, attr_native_value, updOption, pc, inflight, data,
                   hop_intervals, lastResult, lastMessage, reauth, calls, lastAnswer,
                   updVars, remoteVars>>

\* the entities are added once the select entity can be constructed
AddListeners ==
    /\ hop_intervals # None
    /\ get_selected_hop # None
    /\ CreateEntities

\* every label an option of the select entity can be
Options == {Label(StartTime(k), EndTime(k)) : k \in Keys}

\* ElectricKiwiSelectHOPEntity.async_select_option up to its await of
\* async_update_hop, with that method up to its await of post_hop
async_select_option(option) ==
    /\ values_dict # None
    /\ option \in DOMAIN values_dict[1]
    /\ AsyncUpdateHopStart(values_dict[1][option])
    /\ updOption' = Some(option)

\* ---------------------------------------------------------------- HOP sensors
\* native_value with the sensor's own value as the pivot of the rollover
native_valueOwnPivot(sensor) ==
    LET value == value_func(sensor, get_selected_hop[1])
    IN  IF value < now THEN value + OneDay ELSE value

\* ElectricKiwiHOPEntity.native_value: the value of the sensor, a day later
\* when the end of the hop on today's date is before now
native_value(sensor) ==
    LET value == value_func(sensor, get_selected_hop[1])
        end_time == Combine(Today, ParseTime(get_selected_hop[1].end.end_time))
    IN  IF end_time < now THEN value + OneDay ELSE value

\* the state of a HOP sensor is read
ReadSensor(sensor) ==
    /\ sensorValue' = [sensorValue EXCEPT ![sensor] = Some(native_value(sensor))]
    /\ UNCHANGED <<coordinatorVars, now, entityVars>>

\* ---------------------------------------------------------------- specification
Triggers == {"timer", "manual"}

Next ==
    \/ AddListeners
    \/ \E trig \in Triggers : AccountRefreshStart(trig)
    \/ \E resp \in AccountAnswers : AccountRefreshReturn(resp)
    \/ AccountRefreshTimeout
    \/ \E trig \in Triggers : HopRefreshStart(trig)
    \/ \E resp \in HopIntervalsAnswers : HopIntervalsReturn(resp)
    \/ ApiGetHop
    \/ \E resp \in HopAnswers("hop") : HopGetHopReturn(resp)
    \/ HopRefreshTimeout
    \/ \E option \in Options : async_select_option(option)
    \/ ApiPostHop
    \/ \E resp \in HopAnswers("update") : AsyncUpdateHopReturn(resp)

Spec == Init /\ [][Next]_vars

\* the coroutine p resumes with the Hop the remote has answered
ResumeAnswered(p) ==
    /\ inflight[p] # None
    /\ IF p = "hop" THEN HopGetHopReturn(Answer("ok", inflight[p]))
                    ELSE AsyncUpdateHopReturn(Answer("ok", inflight[p]))

\* the event loop fires the timeout of async_timeout.timeout(60) once the 60
\* seconds have passed and resumes a coroutine whose call has been answered;
\* nothing obliges the remote to answer
FairSpec ==
    /\ Spec
    /\ WF_vars(AccountRefreshTimeout)
    /\ WF_vars(HopRefreshTimeout)
    /\ WF_vars(ResumeAnswered("hop"))
    /\ WF_vars(ResumeAnswered("update"))

\* ---------------------------------------------------------------- setup specification
\* async_setup_entry with both exceptions of a first refresh swallowed: it
\* goes on once the refresh has returned, however it ended
FirstRefreshReturned(c) == pc[c] = "idle" /\ lastResult[c] # "none"

\* `await c.async_config_entry_first_refresh()` has returned: the refresh
\* ended and succeeded; when it failed the call raises and async_setup_entry
\* ends there
FirstRefreshSucceeded(c) == pc[c] = "idle" /\ lastResult[c] = "ok"

\* async_setup_entry: the first refresh of the HOP coordinator
SetupHopFirstRefresh ==
    /\ ~listeners
    /\ \A c \in Coords : lastResult[c] = "none"
    /\ pc["account"] = "idle"
    /\ HopRefreshStart("first")

\* async_setup_entry: then the first refresh of the Account coordinator
SetupAccountFirstRefresh ==
    /\ ~listeners
    /\ FirstRefreshSucceeded("hop")
    /\ lastResult["account"] = "none"
    /\ AccountRefreshStart("first")

\* async_setup_entry: then the platforms are forwarded and build the entities
SetupPlatforms ==
    /\ FirstRefreshSucceeded("hop")
    /\ FirstRefreshSucceeded("account")
    /\ CreateEntities

\* one run of async_setup_entry and, once the entities exist, the timers,
\* the manual refreshes and the select entity
SetupNext ==
    \/ SetupHopFirstRefresh
    \/ SetupAccountFirstRefresh
    \/ SetupPlatforms
    \/ listeners /\ \E trig \in Triggers : AccountRefreshStart(trig)
    \/ listeners /\ \E trig \in Triggers : HopRefreshStart(trig)
    \/ \E option \in Options : async_select_option(option)
    \/ \E resp \in AccountAnswers : AccountRefreshReturn(resp)
    \/ AccountRefreshTimeout
    \/ \E resp \in HopIntervalsAnswers : HopIntervalsReturn(resp)
    \/ ApiGetHop
    \/ \E resp \in HopAnswers("hop") : HopGetHopReturn(resp)
    \/ HopRefreshTimeout
    \/ ApiPostHop
    \/ \E resp \in HopAnswers("update") : AsyncUpdateHopReturn(resp)

SetupSpec == Init /\ [][SetupNext]_vars

\* ---------------------------------------------------------------- sensor specification
\* the texts "h:MM AM" / "h:MM PM" of the times of day on the half hours
TimeTexts == {<<h, m, ap>> : h \in 1 .. 12, m \in {0, 30}, ap \in {"AM", "PM"}}

\* every Hop whose start and end are such times
SensorHops ==
    {[start |-> [start_time |-> st], end |-> [end_time |-> et]] :
        st \in TimeTexts, et \in TimeTexts}

\* the instants of the second day of the clock, a quarter of an hour apart
Instants == {OneDay + 15 * i : i \in 0 .. 95}

\* the HOP coordinator holds any selection, the clock shows any instant
SensorInit ==
    /\ pc = [p \in Procs |-> "idle"]
    /\ inflight = [p \in {"hop", "update"} |-> None]
    /\ \E hop \in SensorHops : data = [c \in Coords |-> IF c = "hop" THEN Some(hop) ELSE None]
    /\ hop_intervals = None
    /\ lastResult = [c \in Coords |-> "none"]
    /\ lastMessage = [c \in Coords |-> ""]
    /\ scheduled = [c \in Coords |-> FALSE]
    /\ reauth = [c \in Coords |-> FALSE]
    /\ listeners = FALSE
    /\ notified = "none"
    /\ calls = 0
    /\ remoteHop = 1
    /\ lastAnswer = [p \in Procs |-> "none"]
    /\ balanceReturned = None
    /\ catalogPayload = None
    /\ updKey = 0
    /\ updResult = "none"
    /\ updReturn = None
    /\ now \in Instants
    /\ sensorValue = [s \in HopSensors |-> None]
    /\ values_dict = None
    /\ current_option = None
    /\ attr_native_value = [s \in HopSensors |-> None]
    /\ updOption = None

SensorNext == \E sensor \in HopSensors : ReadSensor(sensor)

SensorSpec == SensorInit /\ [][SensorNext]_vars

TypeOK ==
    /\ pc["account"] \in {"idle", "get_account_balance"}
    /\ pc["hop"] \in {"idle", "get_hop_intervals", "get_hop"}
    /\ pc["update"] \in {"idle", "post_hop"}
    /\ inflight["hop"] # None => pc["hop"] = "get_hop"
    /\ inflight["update"] # None => pc["update"] = "post_hop"
    /\ calls \in 0 .. MaxCalls
    /\ remoteHop \in Keys
    /\ notified \in Coords \cup {"none"}
    /\ values_dict # None => (listeners /\ current_option # None)
    /\ pc["update"] # "idle" => (values_dict # None /\ updOption # None)

\* ---------------------------------------------------------------- properties
\* the step ends the refresh of coordinator c
RefreshEnds(c) == pc[c] # "idle" /\ pc'[c] = "idle"

\* the step starts a refresh of the HOP coordinator
HopRefreshStarts == pc["hop"] = "idle" /\ pc'["hop"] # "idle"

\* the step ends async_update_hop
UpdateEnds == pc["update"] = "post_hop" /\ pc'["update"] = "idle"

\* the call whose answer becomes the snapshot of coordinator c
SnapshotCall(c) == IF c = "account" THEN "get_account_balance" ELSE "get_hop"

\* the value that call gave in the step that ends the refresh
SnapshotAnswer(c) == IF c = "account" THEN balanceReturned' ELSE inflight["hop"]

\* C1: a refresh of either coordinator that ends after its remote call raised
\* (AuthException or ApiException) or ran into the timeout leaves the
\* coordinator's data as it was before the step.
C1_FailedRefreshKeepsSnapshot ==
    [][\A c \in Coords :
            (RefreshEnds(c) /\ lastAnswer'[c] # "ok") => data'[c] = data[c]]_vars

\* both coordinators hold a snapshot and their last refresh failed
C1_Witness ==
    /\ data["account"] # None /\ lastResult["account"] \in FailedResults
    /\ data["hop"] # None /\ lastResult["hop"] \in FailedResults

\* C2: a refresh that ends successfully was answered "ok" by the call that
\* produces the snapshot (get_account_balance, get_hop), and the data after the
\* step is exactly the value of that answer.
C2_SuccessfulRefreshStoresAnswer ==
    [][\A c \in Coords :
            (RefreshEnds(c) /\ lastResult'[c] = "ok")
                => /\ pc[c] = SnapshotCall(c)
                   /\ lastAnswer'[c] = "ok"
                   /\ SnapshotAnswer(c) # None
                   /\ data'[c] = SnapshotAnswer(c)]_vars

\* both coordinators hold the snapshot of a successful refresh
C2_Witness ==
    /\ lastResult["account"] = "ok" /\ data["account"] = Some(AccountBalance(2))
    /\ lastResult["hop"] = "ok" /\ data["hop"] = Some(Hop(remoteHop))

\* C3: when async_update_hop ends after post_hop answered "ok", the data of
\* the HOP coordinator (what get_selected_hop returns) and the value the
\* method returns are both the value of that answer.
C3_UpdateStoresServerValue ==
    [][(UpdateEnds /\ lastAnswer'["update"] = "ok")
            => /\ inflight["update"] # None
               /\ data'["hop"] = inflight["update"]
               /\ updReturn' = inflight["update"]
               /\ updResult' = "ok"]_vars

\* an update ended with a server value that is not the interval asked for
C3_Witness ==
    /\ updResult = "ok"
    /\ get_selected_hop = updReturn
    /\ updReturn # Some(Hop(updKey))
    /\ updReturn = Some(Hop(remoteHop))

\* C4: when post_hop raised, async_update_hop leaves the data unchanged, ends
\* with that same exception and calls no subscriber.
C4_FailedUpdateKeepsSelection ==
    [][(UpdateEnds /\ lastAnswer'["update"] \in ApiErrors)
            => /\ data' = data
               /\ updResult' = lastAnswer'["update"]
               /\ updReturn' = None
               /\ notified' = "none"]_vars

\* an update failed while subscribers exist and a selection was cached
C4_Witness ==
    /\ updResult \in ApiErrors
    /\ listeners
    /\ data["hop"] # None

\* C5 as stated: get_hop_intervals is invoked at most once, by the first
\* refresh at most: every refresh that starts after an earlier one has ended
\* invokes only get_hop.
C5_Original ==
    [][(HopRefreshStarts /\ lastResult["hop"] # "none") => pc'["hop"] = "get_hop"]_vars

\* C5 amended: get_hop_intervals is invoked only by a refresh that starts
\* while the catalog is None; once the catalog is populated a refresh invokes
\* only get_hop and get_hop_intervals is never invoked again.
C5_CatalogFetchedOnlyWhileUnpopulated ==
    [][/\ (pc["hop"] # "get_hop_intervals" /\ pc'["hop"] = "get_hop_intervals")
            => (hop_intervals = None /\ HopRefreshStarts)
       /\ (HopRefreshStarts /\ hop_intervals # None) => pc'["hop"] = "get_hop"]_vars

\* after a refresh that succeeded, hence with the catalog populated, a second
\* refresh is at its only call, get_hop
C5_Witness ==
    /\ hop_intervals # None
    /\ lastResult["hop"] = "ok"
    /\ pc["hop"] = "get_hop"

\* C6: a HOP refresh that ends at get_hop_intervals (it raised or timed out)
\* never awaited get_hop and makes no further remote call, leaves the catalog
\* None and fails; a refresh that starts with the catalog None invokes
\* get_hop_intervals first.
C6_FailedCatalogFetchAborts ==
    [][/\ (pc["hop"] = "get_hop_intervals" /\ pc'["hop"] = "idle")
            => /\ calls' = calls
               /\ hop_intervals' = None
               /\ lastResult'["hop"] \in FailedResults
       /\ (HopRefreshStarts /\ hop_intervals = None)
            => /\ pc'["hop"] = "get_hop_intervals"
               /\ calls' = calls + 1]_vars

\* after a failed catalog fetch the next refresh is fetching the catalog again
C6_Witness ==
    /\ lastResult["hop"] \in FailedResults
    /\ calls = 2
    /\ pc["hop"] = "get_hop_intervals"
    /\ hop_intervals = None

\* C7: once hop_intervals is not None, no step changes it.
C7_CatalogImmutable ==
    [][hop_intervals # None => hop_intervals' = hop_intervals]_vars

\* a populated catalog has seen a later failed refresh and a successful update
C7_Witness ==
    /\ hop_intervals # None
    /\ calls = 4
    /\ lastResult["hop"] \in FailedResults
    /\ updResult = "ok"

\* C8: every key of the cached catalog and every value of get_hop_options is
\* a key whose interval had active = 1 in the payload get_hop_intervals returned.
C8_OnlyActiveIntervals ==
    hop_intervals # None =>
        /\ \A k \in DOMAIN hop_intervals[1].intervals :
                catalogPayload[1].intervals[k].active = 1
        /\ \A l \in DOMAIN get_hop_options :
                /\ get_hop_options[l] \in DOMAIN catalogPayload[1].intervals
                /\ catalogPayload[1].intervals[get_hop_options[l]].active = 1

\* the payload had an inactive and an active interval
C8_Witness ==
    /\ hop_intervals # None
    /\ \E k \in DOMAIN catalogPayload[1].intervals :
            catalogPayload[1].intervals[k].active = 0
    /\ DOMAIN get_hop_options # {}

\* C9: a refresh of either coordinator that ends because its remote call
\* (get_account_balance, get_hop_intervals or get_hop) raised AuthException
\* ends with ConfigEntryAuthFailed, not UpdateFailed; the step leaves the timer
\* of that coordinator disarmed, re-authentication started and the data as it was.
C9_AuthFailureIsDistinct ==
    [][\A c \in Coords :
            (RefreshEnds(c) /\ lastAnswer'[c] = "AuthException")
                => /\ lastResult'[c] = "ConfigEntryAuthFailed"
                   /\ reauth'[c]
                   /\ ~scheduled'[c]
                   /\ data'[c] = data[c]]_vars

\* with subscribers present, a refresh of each coordinator ended with an
\* authentication failure
C9_Witness ==
    /\ listeners
    /\ lastResult["hop"] = "ConfigEntryAuthFailed" /\ lastAnswer["hop"] = "AuthException"
    /\ lastResult["account"] = "ConfigEntryAuthFailed"
    /\ \A c \in Coords : reauth[c] /\ ~scheduled[c] /\ pc[c] = "idle"

\* C10 as stated: every AuthException of a remote call, post_hop of
\* async_update_hop included, starts re-authentication of the coordinator and
\* leaves its timer disarmed.
C10_Original ==
    [][/\ \A c \in Coords :
            (RefreshEnds(c) /\ lastAnswer'[c] = "AuthException")
                => (reauth'[c] /\ ~scheduled'[c])
       /\ (UpdateEnds /\ lastAnswer'["update"] = "AuthException")
                => (reauth'["hop"] /\ ~scheduled'["hop"])]_vars

\* C11: a refresh of either coordinator that ends because its remote call
\* raised ApiException or ran into the timeout ends with UpdateFailed or
\* TimeoutError, starts no re-authentication and leaves the timer armed
\* whenever the coordinator has subscribers, so that an idle coordinator
\* whose last refresh failed this way is due for its next tick; and when a
\* refresh after such a failure is answered "ok", the data becomes the value
\* of that answer.
C11_GenericFailureKeepsSchedule ==
    [][\A c \in Coords :
            /\ (RefreshEnds(c) /\ lastAnswer'[c] \in {"ApiException", "timeout"})
                    => /\ lastResult'[c] \in GenericFailures
                       /\ reauth'[c] = reauth[c]
                       /\ scheduled'[c] = listeners
            /\ (pc[c] = "idle" /\ lastResult[c] \in GenericFailures /\ listeners)
                    => scheduled[c]
            /\ (RefreshEnds(c) /\ lastResult[c] \in GenericFailures
                              /\ lastAnswer'[c] = "ok")
                    => /\ lastResult'[c] = "ok"
                       /\ data'[c] = SnapshotAnswer(c)]_vars

\* with subscribers present, the refresh after a failed one (ApiException or
\* timeout) has been answered by the remote and is about to replace the data
C11_Witness ==
    /\ listeners
    /\ lastResult["hop"] \in GenericFailures
    /\ lastAnswer["hop"] \in {"ApiException", "timeout"}
    /\ data["hop"] # None
    /\ pc["hop"] = "get_hop"
    /\ inflight["hop"] # None

\* C12 as stated: the UpdateFailed that ends a HOP refresh carries a message
\* that names the HOP coordinator: when both coordinators failed with
\* UpdateFailed, on the same error text, their messages differ.
C12_Original ==
    (lastResult["account"] = "UpdateFailed" /\ lastResult["hop"] = "UpdateFailed")
        => lastMessage["hop"] # lastMessage["account"]

\* C13 as stated: every operation that awaits a remote call
\* (get_account_balance, get_hop_intervals, get_hop, post_hop) ends, also
\* when the remote never answers.
C13_Original ==
    \A p \in Procs : (pc[p] # "idle") ~> (pc[p] = "idle")

\* the time of day a text "h:MM AM" / "h:MM PM" names, in minutes after
\* midnight: 12 AM is midnight and 12 PM is noon
TimeOfDay(text) ==
    LET hour == IF text[1] = 12 THEN (IF text[3] = "PM" THEN 12 ELSE 0)
                ELSE IF text[3] = "PM" THEN text[1] + 12 ELSE text[1]
    IN  hour * 60 + text[2]

\* the start (end) of the selected hop on the calendar day of the clock
OnToday(sensor) ==
    LET text == IF sensor = "ATTR_EK_HOP_START" THEN data["hop"][1].start.start_time
                                                ELSE data["hop"][1].end.end_time
    IN  (now \div (24 * 60)) * (24 * 60) + TimeOfDay(text)

\* C14: when the end of the selected hop on today's date is strictly before
\* now, the start sensor and the end sensor both give their time on today's
\* date plus exactly one day; when it is strictly after now, both give their
\* time on today's date; the two sensors always carry the same day offset.
C14_DayRollover ==
    /\ \A sensor \in HopSensors :
            sensorValue[sensor] # None =>
                /\ OnToday("ATTR_EK_HOP_END") < now
                        => sensorValue[sensor][1] = OnToday(sensor) + 24 * 60
                /\ OnToday("ATTR_EK_HOP_END") > now
                        => sensorValue[sensor][1] = OnToday(sensor)
    /\ (\A sensor \in HopSensors : sensorValue[sensor] # None)
            => sensorValue["ATTR_EK_HOP_START"][1] - OnToday("ATTR_EK_HOP_START")
                    = sensorValue["ATTR_EK_HOP_END"][1] - OnToday("ATTR_EK_HOP_END")

\* both sensors were read after the end of the hop had passed while its
\* start on today's date was still ahead: both moved to tomorrow
C14_Witness ==
    /\ \A sensor \in HopSensors : sensorValue[sensor] # None
    /\ OnToday("ATTR_EK_HOP_END") < now
    /\ OnToday("ATTR_EK_HOP_START") > now
    /\ sensorValue["ATTR_EK_HOP_START"][1] = OnToday("ATTR_EK_HOP_START") + 24 * 60
    /\ sensorValue["ATTR_EK_HOP_END"][1] = OnToday("ATTR_EK_HOP_END") + 24 * 60

\* the values the cached selection can be made of whole: None, or one Hop as
\* the remote returns it
WholeHops == {None} \cup {Some(Hop(k)) : k \in Keys}

\* C16: with async_update_hop and a refresh of the HOP coordinator running
\* in any interleaving, the data of the HOP coordinator is at every state
\* None or one whole Hop returned by the remote; it changes only in the step
\* in which get_hop or post_hop gives its answer to the awaiting coroutine,
\* and each such step leaves exactly the Hop of that answer, so the call
\* that completes last decides the final value.
C16_WholesaleLastWins ==
    [][/\ data["hop"] \in WholeHops /\ data'["hop"] \in WholeHops
       /\ (RefreshEnds("hop") /\ lastAnswer'["hop"] = "ok" /\ pc["hop"] = "get_hop")
            => data'["hop"] = inflight["hop"]
       /\ (UpdateEnds /\ lastAnswer'["update"] = "ok")
            => data'["hop"] = inflight["update"]
       /\ data'["hop"] # data["hop"]
            => \/ RefreshEnds("hop") /\ lastAnswer'["hop"] = "ok"
               \/ UpdateEnds /\ lastAnswer'["update"] = "ok"]_vars

\* a refresh whose get_hop was answered before post_hop took effect ended
\* after the update: the data is the whole older Hop, neither the one the
\* update returned nor the one the remote stores
C16_Witness ==
    /\ \A p \in Procs : pc[p] = "idle"
    /\ lastResult["hop"] = "ok"
    /\ updResult = "ok"
    /\ data["hop"] \in WholeHops \ {None}
    /\ data["hop"] # updReturn
    /\ data["hop"] # Some(Hop(remoteHop))

\* C17: the step in which async_update_hop succeeds calls the subscribers of
\* the HOP coordinator in that very step, and so does, with subscribers
\* present, the step in which a HOP refresh succeeds; what the HOP sensors
\* (and, for a refresh, the select entity) computed in that call is computed
\* from the Hop the remote has just returned, which is the data after the step.
C17_NotifiedAfterReplacement ==
    [][/\ (UpdateEnds /\ lastAnswer'["update"] = "ok")
            => /\ listeners
               /\ notified' = "hop"
               /\ data'["hop"] = inflight["update"]
               /\ attr_native_value' = SensorAttrs(inflight["update"])
       /\ (RefreshEnds("hop") /\ lastAnswer'["hop"] = "ok" /\ pc["hop"] = "get_hop"
                              /\ listeners)
            => /\ notified' = "hop"
               /\ data'["hop"] = inflight["hop"]
               /\ attr_native_value' = SensorAttrs(inflight["hop"])
               /\ current_option' = Some(get_current_option(inflight["hop"][1]))]_vars

\* the last step ended an update that changed the selection, to a Hop that
\* is not the one asked for, and called the subscribers: the HOP sensors
\* hold the values of the Hop the remote returned
C17_Witness ==
    /\ pc["update"] = "idle" /\ updResult = "ok"
    /\ notified = "hop"
    /\ updReturn # Some(Hop(updKey))
    /\ data["hop"] = updReturn
    /\ attr_native_value = SensorAttrs(updReturn)
    /\ current_option # Some(get_current_option(updReturn[1]))

\* C18: in a run of async_setup_entry the Account coordinator's first refresh
\* starts only after the HOP coordinator's has succeeded; the entities are
\* created only after both have succeeded, so the select entity is built
\* from a populated catalog and a cached selection, and whenever subscribers
\* exist both are there to read; after a failed first refresh of either
\* coordinator no entity is created and nothing more is started.
C18_EntitiesAfterFirstRefreshes ==
    [][/\ (~listeners /\ pc["account"] = "idle" /\ pc'["account"] # "idle")
            => (pc["hop"] = "idle" /\ lastResult["hop"] = "ok")
       /\ (~listeners /\ listeners')
            => /\ \A c \in Coords :
                    pc[c] = "idle" /\ lastResult[c] = "ok" /\ data[c] # None
               /\ hop_intervals # None
               /\ values_dict' = Some(get_hop_options)
               /\ current_option' = Some(get_current_option(data["hop"][1]))
       /\ listeners => (hop_intervals # None /\ data["hop"] # None)
       /\ (~listeners /\ \E c \in Coords : lastResult[c] \in FailedResults)
            => (~listeners' /\ pc' = pc)]_vars

\* the entities have just been created, after exactly the three remote calls
\* of the two first refreshes
C18_Witness ==
    /\ listeners
    /\ calls = 3
    /\ \A c \in Coords : lastResult[c] = "ok" /\ data[c] # None /\ scheduled[c]
    /\ values_dict = Some(get_hop_options)
    /\ DOMAIN values_dict[1] # {}
    /\ current_option = Some(get_current_option(data["hop"][1]))

\* C19 as stated: whenever the select entity exists and no refresh and no
\* update is in flight, its current option is the label of the Hop the HOP
\* coordinator has in its data, also after an async_select_option that the
\* remote answered with another interval than the one asked for.
C19_Original ==
    (values_dict # None /\ \A p \in Procs : pc[p] = "idle")
        => current_option = Some(get_current_option(get_selected_hop[1]))

\* the cached selection is an interval that was active in the payload the
\* catalog was built from
SelectedIsActive ==
    \E k \in Keys :
        /\ get_selected_hop = Some(Hop(k))
        /\ catalogPayload[1].intervals[k].active = 1

\* C20 as stated: the current option of the select entity is always one of
\* its options, whatever interval the remote returns as the selection.
C20_Original ==
    values_dict # None => current_option[1] \in DOMAIN values_dict[1]

\* C20 amended: the current option of the select entity is one of its
\* options whenever the cached selection is an interval that was active in
\* the catalog payload; a current option outside the options is the label
\* of the cached selection, an interval the filter removed.
C20_CurrentOptionOfActiveSelection ==
    values_dict # None =>
        /\ current_option # None
        /\ SelectedIsActive => current_option[1] \in DOMAIN values_dict[1]
        /\ current_option[1] \notin DOMAIN values_dict[1]
                => /\ current_option = Some(get_current_option(get_selected_hop[1]))
                   /\ ~SelectedIsActive

\* the select entity offers an option and shows the label of a selection
\* the remote returned that is inactive in the catalog
C20_Witness ==
    /\ values_dict # None
    /\ DOMAIN values_dict[1] # {}
    /\ ~SelectedIsActive
    /\ current_option = Some(get_current_option(get_selected_hop[1]))
    /\ current_option[1] \notin DOMAIN values_dict[1]

\* C21 as stated: once async_update_hop has succeeded and the HOP refresh
\* that was in flight during it has ended, with nothing else of the two in
\* flight, the data of the HOP coordinator is the Hop of the selection the
\* remote stores: the step that ends the update with no refresh in flight,
\* and the step in which a refresh answered by get_hop ends after the update,
\* both leave that Hop, also when get_hop was answered before post_hop took
\* effect.
C21_Original ==
    [][/\ (UpdateEnds /\ lastAnswer'["update"] = "ok" /\ pc["hop"] = "idle")
            => data'["hop"] = Some(Hop(remoteHop'))
       /\ (RefreshEnds("hop") /\ lastAnswer'["hop"] = "ok" /\ pc["hop"] = "get_hop"
                              /\ pc["update"] = "idle" /\ updResult = "ok")
            => data'["hop"] = Some(Hop(remoteHop'))]_vars

\* C22: a HOP refresh assigns the filtered catalog before it fetches the
\* selection; when get_hop then raises or runs into the timeout, the refresh
\* fails, the data of the coordinator is as before and the catalog stays as
\* it was populated; the next refresh starts at get_hop with one remote call
\* and goes from there only to its end, never to get_hop_intervals.
C22_CatalogSurvivesFailedSelectionFetch ==
    [][/\ (pc["hop"] = "get_hop_intervals" /\ pc'["hop"] = "get_hop")
            => hop_intervals' = Some(FilterActive(catalogPayload'[1]))
       /\ (RefreshEnds("hop") /\ pc["hop"] = "get_hop" /\ lastAnswer'["hop"] # "ok")
            => /\ lastResult'["hop"] \in FailedResults
               /\ data'["hop"] = data["hop"]
               /\ hop_intervals # None
               /\ hop_intervals' = hop_intervals
       /\ (HopRefreshStarts /\ lastResult["hop"] \in FailedResults /\ hop_intervals # None)
            => /\ pc'["hop"] = "get_hop"
               /\ calls' = calls + 1
       /\ pc["hop"] = "get_hop" => pc'["hop"] \in {"get_hop", "idle"}]_vars

\* the first refresh fetched the catalog and failed at get_hop, and the
\* second refresh is at its only call, get_hop: three calls of the HOP
\* coordinator in all, no selection cached, the catalog populated
C22_Witness ==
    /\ pc["hop"] = "get_hop"
    /\ lastAnswer["hop"] \in {"AuthException", "ApiException", "timeout"}
    /\ lastResult["hop"] \in FailedResults
    /\ calls = 3
    /\ pc["account"] = "idle" /\ lastResult["account"] = "none"
    /\ updResult = "none"
    /\ hop_intervals # None
    /\ data["hop"] = None

====
